---- MODULE Spec2Model ----
(***************************************************************************)
(* Monomial-algebra utilities of CHEBYSHEV/cheb_utils.py: the Term order,  *)
(* the monomial enumerations and counts, the power-basis permutation       *)
(* arrays, and the max-heap over Term used by tests/test_utils.py.         *)
(*                                                                         *)
(* Python lists and numpy arrays are sequences; a Python index i is the    *)
(* position i+1 of the sequence, and the VALUES stored in index arrays     *)
(* keep the code's 0-based numbering.                                      *)
(***************************************************************************)
EXTENDS Integers, Sequences, FiniteSets, TLC

(* ---------------------------- bounds ----------------------------------- *)
MaxDim == 3
MaxDeg == 4
MaxPermLen == 4
MaxTermLen == 3
MaxTermDeg == 2

(* ------------------------- small helpers ------------------------------- *)
RECURSIVE listRange(_, _, _)
\* the list f[lo], .., f[hi], built by halving so that long lists need only
\* a shallow recursion
listRange(f, lo, hi) ==
    IF lo > hi THEN <<>>
    ELSE IF lo = hi THEN <<f[lo]>>
    ELSE LET mid == (lo + hi) \div 2
         IN  listRange(f, lo, mid) \o listRange(f, mid + 1, hi)

\* the list f[1], .., f[n] as a tuple
ListOf(f, n) == listRange(f, 1, n)

\* Python's [v]*n
Rep(v, n) == ListOf([k \in 1..n |-> v], n)

RECURSIVE SumSeq(_)
\* Python's sum(seq)
SumSeq(s) == IF s = <<>> THEN 0 ELSE Head(s) + SumSeq(Tail(s))

\* Python's reversed(seq) / seq[::-1]
Reverse(s) == ListOf([k \in 1..Len(s) |-> s[Len(s) + 1 - k]], Len(s))

Min(a, b) == IF a < b THEN a ELSE b

(* --------------------------- Term.__lt__ ------------------------------- *)
RECURSIVE zipScan_fallTrue(_, _, _, _)
\* the mutant: falling out of the loop returns True
zipScan_fallTrue(a, b, k, onLess) ==
    IF k > Min(Len(a), Len(b)) THEN TRUE
    ELSE IF a[k] < b[k] THEN onLess
    ELSE IF a[k] > b[k] THEN ~onLess
    ELSE zipScan_fallTrue(a, b, k + 1, onLess)

RECURSIVE zipScan(_, _, _, _)
\* for i,j in zip(a,b): if i < j: return onLess; if i > j: return ~onLess;
\* falling out of the loop returns False.  zip stops at the shorter input.
zipScan(a, b, k, onLess) ==
    IF k > Min(Len(a), Len(b)) THEN FALSE
    ELSE IF a[k] < b[k] THEN onLess
    ELSE IF a[k] > b[k] THEN ~onLess
    ELSE zipScan(a, b, k + 1, onLess)

\* the mutant: the grevlex tie-break scans forward instead of reversed
Term_lt_forward(self, other, order) ==
    IF order = "grevlex" THEN
        IF SumSeq(self) < SumSeq(other) THEN TRUE
        ELSE IF SumSeq(self) > SumSeq(other) THEN FALSE
        ELSE zipScan(self, other, 1, FALSE)
    ELSE IF order = "lexographic" THEN zipScan(self, other, 1, TRUE)
    ELSE IF SumSeq(self) < SumSeq(other) THEN TRUE
    ELSE IF SumSeq(self) > SumSeq(other) THEN FALSE
    ELSE zipScan(self, other, 1, TRUE)

\* Term.__lt__(self, other, order): self.val and other.val are the tuples
Term_lt(self, other, order) ==
    IF order = "grevlex" THEN
        IF SumSeq(self) < SumSeq(other) THEN TRUE
        ELSE IF SumSeq(self) > SumSeq(other) THEN FALSE
        ELSE zipScan(Reverse(self), Reverse(other), 1, FALSE)
    ELSE IF order = "lexographic" THEN zipScan(self, other, 1, TRUE)
    ELSE IF order = "grlex" THEN
        IF SumSeq(self) < SumSeq(other) THEN TRUE
        ELSE IF SumSeq(self) > SumSeq(other) THEN FALSE
        ELSE zipScan(self, other, 1, TRUE)
    ELSE FALSE

(* ------------------------- counting ------------------------------------ *)
RECURSIVE combLoop(_, _, _, _)
\* for j in range(n): val = (val*(N-j))//(j+1)
combLoop(N, j, n, val) ==
    IF j >= n THEN val ELSE combLoop(N, j + 1, n, (val * (N - j)) \div (j + 1))

\* scipy.misc.comb(N, k, exact=True)
comb(N, k) ==
    IF (k > N) \/ (N < 0) \/ (k < 0) THEN 0
    ELSE combLoop(N, 0, Min(k, N - k), 1)

\* the mutant: comb(deg+dim, deg), an off-by-one in the stars-and-bars count
num_mons_offbyone(deg, dim) == comb(deg + dim, deg)

num_mons(deg, dim) == comb(deg + dim - 1, deg)

(* ------------------------ enumeration ---------------------------------- *)
\* Both enumerations write into the list they are handed (mon[spot] = ...),
\* so each returns the answers together with that list as it is left.
RECURSIVE mon_combosHighest(_, _, _)
RECURSIVE mchLoop_skiplast(_, _, _, _, _)
\* the mutant: the loop runs over range(numLeft) instead of range(numLeft+1)
mchLoop_skiplast(temp, numLeft, spot, i, answers) ==
    IF i >= numLeft THEN answers
    ELSE LET t1 == [temp EXCEPT ![spot + 1] = i]
             r  == mon_combosHighest(t1, numLeft - i, spot + 1)
         IN  mchLoop_skiplast(r.mon, numLeft, spot, i + 1, answers \o r.answers)

RECURSIVE mchLoop(_, _, _, _, _)
\* for i in range(numLeft+1): temp[spot] = i; answers += recursive call
mchLoop(temp, numLeft, spot, i, answers) ==
    IF i >= numLeft + 1 THEN answers
    ELSE LET t1 == [temp EXCEPT ![spot + 1] = i]
             r  == mon_combosHighest(t1, numLeft - i, spot + 1)
         IN  mchLoop(r.mon, numLeft, spot, i + 1, answers \o r.answers)

mon_combosHighest(mon, numLeft, spot) ==
    IF Len(mon) = spot + 1 THEN
        LET m1 == [mon EXCEPT ![spot + 1] = numLeft]
        IN  [answers |-> <<m1>>, mon |-> m1]
    ELSE IF numLeft = 0 THEN [answers |-> <<mon>>, mon |-> mon]
    ELSE [answers |-> mchLoop(mon, numLeft, spot, 0, <<>>), mon |-> mon]

RECURSIVE mon_combos(_, _, _)
RECURSIVE mcLoop(_, _, _, _, _)
RECURSIVE mcLast(_, _, _, _, _)
\* the mutant: the last coordinate absorbs the remainder, as it does in
\* mon_combosHighest (mon[spot] = numLeft; answers.append(mon.copy()))
mcLast_exact(mon, numLeft, spot, i, answers) ==
    LET m1 == [mon EXCEPT ![spot + 1] = numLeft]
    IN  [answers |-> Append(answers, m1), mon |-> m1]

\* for i in range(numLeft+1): mon[spot] = i; answers.append(mon.copy())
mcLast(mon, numLeft, spot, i, answers) ==
    IF i >= numLeft + 1 THEN [answers |-> answers, mon |-> mon]
    ELSE LET m1 == [mon EXCEPT ![spot + 1] = i]
         IN  mcLast(m1, numLeft, spot, i + 1, Append(answers, m1))

\* for i in range(numLeft+1): temp[spot] = i; answers += recursive call
mcLoop(temp, numLeft, spot, i, answers) ==
    IF i >= numLeft + 1 THEN answers
    ELSE LET t1 == [temp EXCEPT ![spot + 1] = i]
             r  == mon_combos(t1, numLeft - i, spot + 1)
         IN  mcLoop(r.mon, numLeft, spot, i + 1, answers \o r.answers)

mon_combos(mon, numLeft, spot) ==
    IF Len(mon) = spot + 1 THEN mcLast(mon, numLeft, spot, 0, <<>>)
    ELSE IF numLeft = 0 THEN [answers |-> <<mon>>, mon |-> mon]
    ELSE [answers |-> mcLoop(mon, numLeft, spot, 0, <<>>), mon |-> mon]

RECURSIVE mons_ordered_from(_, _, _, _)
\* for i in range(deg+1): for j in mon_combosHighest([0]*dim,i): append(j)
mons_ordered_from(dim, deg, i, acc) ==
    IF i >= deg + 1 THEN acc
    ELSE mons_ordered_from(dim, deg, i + 1,
                           acc \o mon_combosHighest(Rep(0, dim), i, 0).answers)

\* the mutant: the loop starts at degree 1 (range(1, deg+1))
mons_ordered_nodeg0(dim, deg) == mons_ordered_from(dim, deg, 1, <<>>)

\* the mutant: the list is returned reversed (mons_ordered[::-1])
mons_ordered_reversed(dim, deg) == Reverse(mons_ordered_from(dim, deg, 0, <<>>))

mons_ordered(dim, deg) == mons_ordered_from(dim, deg, 0, <<>>)

(* ----------------------- permutation arrays ---------------------------- *)
\* the mutant: the inverse is gathered (arange[P]) instead of scattered
inverse_P_gather(P) == ListOf([j \in 1..Len(P) |-> P[j]], Len(P))

\* inverse = np.empty_like(P); inverse[P] = np.arange(len(P)).
\* Every caller hands in a permutation of [0, len(P)), so every slot of the
\* empty array is written exactly once.
inverse_P(P) ==
    ListOf([j \in 1..Len(P) |-> (CHOOSE i \in 1..Len(P) : P[i] = j - 1) - 1],
           Len(P))

\* arr[idx] for an index array idx (numpy fancy indexing, 0-based values)
Take(arr, idx) == ListOf([j \in 1..Len(idx) |-> arr[idx[j] + 1]], Len(idx))

RECURSIVE whereRange(_, _, _, _)
\* the 0-based positions k-1, lo <= k <= hi, with array[k] = val, ascending
whereRange(array, val, lo, hi) ==
    IF lo > hi THEN <<>>
    ELSE IF lo = hi THEN (IF array[lo] = val THEN <<lo - 1>> ELSE <<>>)
    ELSE LET mid == (lo + hi) \div 2
         IN  whereRange(array, val, lo, mid) \o whereRange(array, val, mid + 1, hi)

\* np.where(mask)[0] for mask = (array = val)
where(array, val) == whereRange(array, val, 1, Len(array))

RECURSIVE arrays(_, _, _)
arrays(deg, dim, mon) ==
    IF dim - 1 = mon THEN
        LET total == num_mons(deg, dim)
            end   == num_mons(deg, dim - 1)
        IN  Rep(TRUE, total - end) \o Rep(FALSE, end)
    ELSE IF deg = 1 THEN [Rep(FALSE, dim) EXCEPT ![dim - mon] = TRUE]
    ELSE arrays(deg - 1, dim, mon) \o arrays(deg, dim - 1, mon)

RECURSIVE paLastLoop(_, _, _, _, _)
\* for d in range(1,deg+1): array = arrays(d,dim,mon) + array
paLastLoop(d, deg, dim, mon, array) ==
    IF d >= deg + 1 THEN array
    ELSE paLastLoop(d + 1, deg, dim, mon, arrays(d, dim, mon) \o array)

RECURSIVE paOtherLoop(_, _, _, _, _, _)
\* for d in range(2,deg+1): first = first + arrays(d,dim-1,mon); array = first+array
paOtherLoop(d, deg, dim, mon, first, array) ==
    IF d >= deg + 1 THEN array
    ELSE LET f1 == first \o arrays(d, dim - 1, mon)
         IN  paOtherLoop(d + 1, deg, dim, mon, f1, f1 \o array)

\* the boolean mask permutation_array builds before it is turned into indexes
permutation_mask(deg, dim, mon) ==
    IF mon = dim - 1 THEN paLastLoop(1, deg, dim, mon, <<FALSE>>)
    ELSE LET first == [Rep(FALSE, dim) EXCEPT ![dim - mon] = TRUE]
         IN  paOtherLoop(2, deg, dim, mon, first, first \o <<FALSE>>)

\* the mutant: the True positions are stacked before the False ones
permutation_array_swapped(deg, dim, mon) ==
    LET array == permutation_mask(deg, dim, mon)
    IN  inverse_P(where(array, TRUE) \o where(array, FALSE))

permutation_array(deg, dim, mon) ==
    LET array == permutation_mask(deg, dim, mon)
    IN  inverse_P(where(array, FALSE) \o where(array, TRUE))

\* get_var_list(dim): the unit tuples x_0 .. x_{dim-1}
get_var_list(dim) == ListOf([i \in 1..dim |-> [Rep(0, dim) EXCEPT ![i] = 1]], dim)

RECURSIVE rowLength(_, _, _)
\* np.sum([num_mons(deg,dim) for deg in range(matrixDegree+1)])
rowLength(dim, matrixDegree, d) ==
    IF d >= matrixDegree + 1 THEN 0
    ELSE num_mons(d, dim) + rowLength(dim, matrixDegree, d + 1)

\* np.arange(n)
arange(n) == ListOf([j \in 1..n |-> j - 1], n)

\* np.subtract(a, b), coordinate-wise
subtract(a, b) == ListOf([k \in 1..Len(a) |-> a[k] - b[k]], Len(a))

\* A dictionary is a function on its key set.  dictSet is d[key] = val.
dictSet(d, key, val) == (key :> val) @@ d

\* arr[idx] raises IndexError when an index is outside [-len, len)
indexFails(arr, idx) ==
    \E j \in 1..Len(idx) : idx[j] >= Len(arr) \/ idx[j] < 0 - Len(arr)

\* the first part of all_permutations: the identity for the constant
\* monomial and permutation_array(matrixDegree,dim,dim-1-i) for each x_i
firstPermutations(dim, matrixDegree) ==
    LET vl == get_var_list(dim)
    IN  [m \in {Rep(0, dim)} \cup {vl[i] : i \in 1..dim} |->
            IF m = Rep(0, dim) THEN arange(rowLength(dim, matrixDegree, 0))
            ELSE LET i == CHOOSE i \in 1..dim : vl[i] = m
                 IN  permutation_array(matrixDegree, dim, dim - 1 - (i - 1))]

RECURSIVE apVarLoop_firstvar(_, _, _, _)
apVarLoop_firstvar(st, mon, varList, k) ==
    IF k > 1 THEN [st EXCEPT !.skipped = @ + 1]
    ELSE LET var  == varList[k]
             diff == subtract(mon, var)
         IN  IF diff \in DOMAIN st.permutations THEN
                 IF indexFails(st.permutations[var], st.permutations[diff])
                 THEN [st EXCEPT !.raised = TRUE]
                 ELSE [st EXCEPT !.permutations =
                         dictSet(@, mon, Take(st.permutations[var],
                                              st.permutations[diff]))]
             ELSE apVarLoop_firstvar(st, mon, varList, k + 1)

RECURSIVE apVarLoop_nocompose(_, _, _, _)
apVarLoop_nocompose(st, mon, varList, k) ==
    IF k > Len(varList) THEN [st EXCEPT !.skipped = @ + 1]
    ELSE LET var  == varList[k]
             diff == subtract(mon, var)
         IN  IF diff \in DOMAIN st.permutations THEN
                 IF indexFails(st.permutations[var], st.permutations[diff])
                 THEN [st EXCEPT !.raised = TRUE]
                 ELSE [st EXCEPT !.permutations =
                         dictSet(@, mon, st.permutations[diff])]
             ELSE apVarLoop_nocompose(st, mon, varList, k + 1)

RECURSIVE apVarLoop(_, _, _, _)
\* for var in varList: diff = mon - var; if diff in permutations:
\*     permutations[mon] = permutations[var][permutations[diff]]; break
\* st.skipped counts the monomials for which the loop ends without a break:
\* no decrement is in the memo and the monomial gets no entry.
apVarLoop(st, mon, varList, k) ==
    IF k > Len(varList) THEN [st EXCEPT !.skipped = @ + 1]
    ELSE LET var  == varList[k]
             diff == subtract(mon, var)
         IN  IF diff \in DOMAIN st.permutations THEN
                 IF indexFails(st.permutations[var], st.permutations[diff])
                 THEN [st EXCEPT !.raised = TRUE]
                 ELSE [st EXCEPT !.permutations =
                         dictSet(@, mon, Take(st.permutations[var],
                                              st.permutations[diff]))]
             ELSE apVarLoop(st, mon, varList, k + 1)

RECURSIVE apMonLoop(_, _, _, _, _)
\* for mon in mons[lo..hi]: ...   The iterations run in order, the first
\* half before the second; an exception ends the loop.
apMonLoop(st, mons, lo, hi, varList) ==
    IF st.raised \/ lo > hi THEN st
    ELSE IF lo = hi THEN apVarLoop(st, mons[lo], varList, 1)
    ELSE LET mid == (lo + hi) \div 2
         IN  apMonLoop(apMonLoop(st, mons, lo, mid, varList),
                       mons, mid + 1, hi, varList)

RECURSIVE apDegLoop(_, _, _, _, _)
\* for d in range(current_degree,deg+1): mons = mon_combosHighest([0]*dim,d)
apDegLoop(st, d, deg, dim, varList) ==
    IF d >= deg + 1 \/ st.raised THEN st
    ELSE LET mons == mon_combosHighest(Rep(0, dim), d, 0).answers
         IN  apDegLoop(apMonLoop(st, mons, 1, Len(mons), varList),
                       d + 1, deg, dim, varList)

\* all_permutations(deg, dim, matrixDegree) with the defaults
\* permutations = None and current_degree = 2
all_permutations(deg, dim, matrixDegree) ==
    apDegLoop([permutations |-> firstPermutations(dim, matrixDegree),
               raised |-> FALSE, skipped |-> 0],
              2, deg, dim, get_var_list(dim))

(* ------------------------ Chebyshev triples ---------------------------- *)
absdiff_signed(a, b) ==
    ListOf([k \in 1..Len(a) |-> a[k] - b[k]], Len(a))

\* np.abs(np.subtract(a, b)), coordinate-wise
absdiff(a, b) ==
    ListOf([k \in 1..Len(a) |-> IF a[k] >= b[k] THEN a[k] - b[k] ELSE b[k] - a[k]],
           Len(a))

mon_dict_of_forward(mons) ==
    [m \in {mons[j] : j \in 1..Len(mons)} |->
        (CHOOSE j \in 1..Len(mons) : mons[j] = m) - 1]

\* mon_dict of all_permutations_cheb: for i,j in zip(mons[::-1],
\* range(len(mons))): mon_dict[tuple(i)] = j  (a later j overwrites)
mon_dict_of(mons) ==
    LET rev == Reverse(mons)
    IN  [m \in {rev[j] : j \in 1..Len(rev)} |->
            (CHOOSE j \in 1..Len(rev) :
                rev[j] = m /\ \A j2 \in (j + 1)..Len(rev) : rev[j2] # m) - 1]

perturbStep_swapped(mult_mon, monomial, mon_dict, var, needGE, perturb) ==
    LET needed == (monomial[var + 1] >= mult_mon[var + 1]) = needGE
        diff   == absdiff(monomial, mult_mon)
    IN  IF needed /\ diff \in DOMAIN mon_dict
        THEN [perturb EXCEPT ![mon_dict[monomial] + 1] = mon_dict[diff]]
        ELSE perturb

\* one iteration of the loop of cheb_perturbation2/3:
\*   idx = mon_dict[monomial]; diff = |monomial - mult_mon|;
\*   try: perturb[mon_dict[diff]] = idx   except KeyError: pass
\* for a monomial of mons_needed; needGE selects mons[:,var] >=
\* mult_mon[var], otherwise mons[:,var] < mult_mon[var].
perturbStep(mult_mon, monomial, mon_dict, var, needGE, perturb) ==
    LET needed == (monomial[var + 1] >= mult_mon[var + 1]) = needGE
        diff   == absdiff(monomial, mult_mon)
    IN  IF needed /\ diff \in DOMAIN mon_dict
        THEN [perturb EXCEPT ![mon_dict[diff] + 1] = mon_dict[monomial]]
        ELSE perturb

RECURSIVE perturbLoop(_, _, _, _, _, _, _, _)
\* for monomial in mons[lo..hi]: ...   The iterations run in order, the
\* first half before the second.
perturbLoop(mult_mon, mons, mon_dict, var, needGE, lo, hi, perturb) ==
    IF lo > hi THEN perturb
    ELSE IF lo = hi
    THEN perturbStep(mult_mon, mons[lo], mon_dict, var, needGE, perturb)
    ELSE LET mid   == (lo + hi) \div 2
             first == perturbLoop(mult_mon, mons, mon_dict, var, needGE,
                                  lo, mid, perturb)
         IN  IF Len(first) = Len(perturb)
             THEN perturbLoop(mult_mon, mons, mon_dict, var, needGE,
                              mid + 1, hi, first)
             ELSE first

\* mons[:,var] fails (IndexError) on the one-dimensional empty array that
\* np.array([]) is; that is what mons_ordered(dim, -1) returns.
cheb_perturbation2(mult_mon, mons, mon_dict, var) ==
    IF mons = <<>> THEN [raised |-> TRUE, perturb |-> <<>>]
    ELSE [raised |-> FALSE,
          perturb |-> perturbLoop(mult_mon, mons, mon_dict, var, TRUE, 1, Len(mons),
                                  Rep(0, Cardinality(DOMAIN mon_dict)))]

cheb_perturbation3(mult_mon, mons, mon_dict, var) ==
    IF mons = <<>> THEN [raised |-> TRUE, perturb |-> <<>>]
    ELSE [raised |-> FALSE,
          perturb |-> perturbLoop(mult_mon, mons, mon_dict, var, FALSE, 1, Len(mons),
                                  Rep(0, Cardinality(DOMAIN mon_dict)))]

\* mons_1D(dim, deg, var): [0,..,i,..,0] for i in range(2, deg+1)
mons_1D(dim, deg, var) ==
    ListOf([k \in 1..(deg - 1) |-> [Rep(0, dim) EXCEPT ![var + 1] = k + 1]],
           deg - 1)

\* The triple stored for the variable x_i by the first loop of
\* all_permutations_cheb: P, P_inv with its first num_in_top entries zeroed,
\* and P2 with P2[::-1][A] = P[::-1][A] for A = np.where(mons[:,i] == 1).
chebVarTriple(dim, matrixDegree, mons, i) ==
    LET num_in_top == num_mons(matrixDegree, dim) + num_mons(matrixDegree - 1, dim)
        P     == permutation_array(matrixDegree, dim, dim - 1 - i)
        P_inv == inverse_P(P)
        n     == Len(P)
        A     == {a \in 0..(Len(mons) - 1) : mons[a + 1][i + 1] = 1}
    IN  << P,
           ListOf([j \in 1..n |-> IF j <= num_in_top THEN 0 ELSE P_inv[j]], n),
           ListOf([j \in 1..n |-> IF (n - j) \in A THEN P[j] ELSE 0], n) >>

chebFirst(dim, matrixDegree, mons) ==
    LET vl == get_var_list(dim)
    IN  [m \in {vl[i] : i \in 1..dim} |->
            chebVarTriple(dim, matrixDegree, mons,
                          (CHOOSE i \in 1..dim : vl[i] = m) - 1)]

RECURSIVE chebCalcLoop(_, _, _, _, _, _, _)
\* for calc in mons: diff = calc - mon; if diff in permutations: ...
chebCalcLoop(st, calcs, k, mon, mons2, mon_dict, i) ==
    IF k > Len(calcs) \/ st.raised THEN st
    ELSE LET calc == calcs[k]
             diff == subtract(calc, mon)
         IN  IF diff \in DOMAIN st.permutations THEN
                 LET Pm == st.permutations[mon][1]
                     Pd == st.permutations[diff][1]
                     c1 == cheb_perturbation2(calc, mons2, mon_dict, i)
                     c2 == cheb_perturbation3(calc, mons2, mon_dict, i)
                 IN  IF indexFails(Pm, Pd) \/ c1.raised \/ c2.raised
                     THEN [st EXCEPT !.raised = TRUE]
                     ELSE chebCalcLoop(
                            [st EXCEPT !.permutations =
                                dictSet(@, calc, <<Take(Pm, Pd), c1.perturb, c2.perturb>>)],
                            calcs, k + 1, mon, mons2, mon_dict, i)
             ELSE chebCalcLoop(st, calcs, k + 1, mon, mons2, mon_dict, i)

RECURSIVE chebVarLoop(_, _, _, _, _, _)
\* for i in range(dim): mons = mons_1D(dim, deg, i); mon = e_i; ...
chebVarLoop(st, i, dim, deg, mons2, mon_dict) ==
    IF i >= dim \/ st.raised THEN st
    ELSE chebVarLoop(
            chebCalcLoop(st, mons_1D(dim, deg, i), 1,
                         [Rep(0, dim) EXCEPT ![i + 1] = 1], mons2, mon_dict, i),
            i + 1, dim, deg, mons2, mon_dict)

\* all_permutations_cheb(deg, dim, matrixDegree)
all_permutations_cheb(deg, dim, matrixDegree) ==
    LET mons     == mons_ordered(dim, matrixDegree)
        mon_dict == mon_dict_of(mons)
        mons2    == mons_ordered(dim, matrixDegree - 1)
    IN  chebVarLoop([permutations |-> chebFirst(dim, matrixDegree, mons),
                     raised |-> FALSE],
                    0, dim, deg, mons2, mon_dict)

(* --------------------------- state ------------------------------------- *)
RECURSIVE SumTo(_, _)
SumTo(f, n) == IF n <= 0 THEN 0 ELSE f[n] + SumTo(f, n - 1)

\* every exponent tuple of length dim with total degree <= maxdeg
Monomials(dim, maxdeg) ==
    {ListOf(f, dim) : f \in {g \in [1..dim -> 0..maxdeg] : SumTo(g, dim) <= maxdeg}}


\* op, args, ret, raised: the call in progress and its outcome.
\* heap: the array of the MaxHeap; drained: what heappop has returned since
\* the last heappush, in order.
VARIABLES op, args, ret, raised, heap, drained

vars == <<op, args, ret, raised, heap, drained>>

callVars == <<op, args, ret, raised>>

heapVars == <<heap, drained>>

Init ==
    /\ op = "none"
    /\ args = <<>>
    /\ ret = <<>>
    /\ raised = FALSE
    /\ heap = <<>>
    /\ drained = <<>>

Call_mon_combosHighest ==
    /\ op = "none"
    /\ \E dim \in 1..MaxDim, d \in (-1)..MaxDeg :
        /\ op' = "mon_combosHighest"
        /\ args' = [dim |-> dim, deg |-> d]
        /\ ret' = mon_combosHighest(Rep(0, dim), d, 0).answers
        /\ raised' = FALSE
        /\ UNCHANGED heapVars

Call_mon_combos ==
    /\ op = "none"
    /\ \E dim \in 1..MaxDim, d \in (-1)..MaxDeg :
        /\ op' = "mon_combos"
        /\ args' = [dim |-> dim, deg |-> d]
        /\ ret' = mon_combos(Rep(0, dim), d, 0).answers
        /\ raised' = FALSE
        /\ UNCHANGED heapVars

Call_num_mons ==
    /\ op = "none"
    /\ \E dim \in 1..MaxDim, d \in (-1)..MaxDeg :
        /\ op' = "num_mons"
        /\ args' = [dim |-> dim, deg |-> d]
        /\ ret' = num_mons(d, dim)
        /\ raised' = FALSE
        /\ UNCHANGED heapVars

Call_mons_ordered ==
    /\ op = "none"
    /\ \E dim \in 1..MaxDim, d \in (-1)..MaxDeg :
        /\ op' = "mons_ordered"
        /\ args' = [dim |-> dim, deg |-> d]
        /\ ret' = mons_ordered(dim, d)
        /\ raised' = FALSE
        /\ UNCHANGED heapVars

Call_permutation_array ==
    /\ op = "none"
    /\ \E dim \in 1..MaxDim, D \in 0..MaxDeg :
        \E mon \in 0..(dim - 1) :
            /\ op' = "permutation_array"
            /\ args' = [dim |-> dim, deg |-> D, mon |-> mon]
            /\ ret' = permutation_array(D, dim, mon)
            /\ raised' = FALSE
            /\ UNCHANGED heapVars
        /\ UNCHANGED heapVars

Call_all_permutations ==
    /\ op = "none"
    /\ \E dim \in 1..MaxDim, D \in 0..MaxDeg, deg \in 0..MaxDeg :
        LET r == all_permutations(deg, dim, D)
        IN  /\ op' = "all_permutations"
            /\ args' = [dim |-> dim, deg |-> deg, matrixDegree |-> D]
            /\ ret' = IF r.raised THEN <<>> ELSE r.permutations
            /\ raised' = r.raised
            /\ UNCHANGED heapVars

Call_all_permutations_cheb ==
    /\ op = "none"
    /\ \E dim \in 1..MaxDim, D \in 0..MaxDeg, deg \in 0..MaxDeg :
        LET r == all_permutations_cheb(deg, dim, D)
        IN  /\ op' = "all_permutations_cheb"
            /\ args' = [dim |-> dim, deg |-> deg, matrixDegree |-> D]
            /\ ret' = IF r.raised THEN <<>> ELSE r.permutations
            /\ raised' = r.raised
            /\ UNCHANGED heapVars

\* cheb_perturbation2(mult, mons2, mon_dict, var) as all_permutations_cheb
\* calls it: mult = k*e_var, mons2 = mons_ordered(dim, matrixDegree-1) and
\* mon_dict the index of mons_ordered(dim, matrixDegree) reversed
Call_cheb_perturbation2 ==
    /\ op = "none"
    /\ \E dim \in 1..MaxDim, D \in 0..MaxDeg, k \in 0..MaxDeg :
        \E var \in 0..(dim - 1) :
        LET r == cheb_perturbation2([Rep(0, dim) EXCEPT ![var + 1] = k],
                                    mons_ordered(dim, D - 1),
                                    mon_dict_of(mons_ordered(dim, D)), var)
        IN  /\ op' = "cheb_perturbation2"
            /\ args' = [dim |-> dim, matrixDegree |-> D, k |-> k, var |-> var]
            /\ ret' = r.perturb
            /\ raised' = r.raised
            /\ UNCHANGED heapVars

\* cheb_perturbation3 on the same inputs
Call_cheb_perturbation3 ==
    /\ op = "none"
    /\ \E dim \in 1..MaxDim, D \in 0..MaxDeg, k \in 0..MaxDeg :
        \E var \in 0..(dim - 1) :
        LET r == cheb_perturbation3([Rep(0, dim) EXCEPT ![var + 1] = k],
                                    mons_ordered(dim, D - 1),
                                    mon_dict_of(mons_ordered(dim, D)), var)
        IN  /\ op' = "cheb_perturbation3"
            /\ args' = [dim |-> dim, matrixDegree |-> D, k |-> k, var |-> var]
            /\ ret' = r.perturb
            /\ raised' = r.raised
            /\ UNCHANGED heapVars

Call_inverse_P ==
    /\ op = "none"
    /\ \E n \in 1..MaxPermLen :
        \E f \in [1..n -> 0..(n - 1)] :
            /\ \A i, j \in 1..n : f[i] = f[j] => i = j
            /\ op' = "inverse_P"
            /\ args' = [P |-> ListOf(f, n)]
            /\ ret' = inverse_P(ListOf(f, n))
            /\ raised' = FALSE
            /\ UNCHANGED heapVars
        /\ UNCHANGED heapVars

\* Term(a) < Term(b) and the other comparisons of a sampled triple a, b, c
Call_Term_lt ==
    /\ op = "none"
    /\ \E n \in 1..MaxTermLen, order \in {"grevlex", "lexographic", "grlex"} :
        \E a, b, c \in Monomials(n, MaxTermDeg) :
            /\ op' = "Term_lt"
            /\ args' = [a |-> a, b |-> b, c |-> c, order |-> order]
            /\ ret' = [ab |-> Term_lt(a, b, order), ba |-> Term_lt(b, a, order),
                       bc |-> Term_lt(b, c, order), ac |-> Term_lt(a, c, order)]
            /\ raised' = FALSE
            /\ UNCHANGED heapVars
        /\ UNCHANGED heapVars

\* the caller drops the result and is ready for the next call
Return ==
    /\ op # "none"
    /\ op' = "none"
    /\ args' = <<>>
    /\ ret' = <<>>
    /\ raised' = FALSE
    /\ UNCHANGED heapVars

Next ==
    \/ Call_mon_combosHighest
    \/ Call_mon_combos
    \/ Call_num_mons
    \/ Call_mons_ordered
    \/ Call_permutation_array
    \/ Call_all_permutations
    \/ Call_all_permutations_cheb
    \/ Call_cheb_perturbation2
    \/ Call_cheb_perturbation3
    \/ Call_inverse_P
    \/ Call_Term_lt
    \/ Return

Spec == Init /\ [][Next]_vars

(* ------------------- the max-heap of test_push_pop --------------------- *)
\* the Terms of test_push_pop
a0 == <<0, 0, 1, 0, 0>>
a1 == <<0, 1, 1, 3, 1>>
a2 == <<0, 1, 1, 3, 0, 0, 0, 1>>
a3 == <<2, 2, 2, 3, 4, 1, 4, 3>>
a4 == <<0, 1, 1, 2, 2>>

TestTerms == {a0, a1, a2, a3, a4}

\* Term.__lt__ with its default order
lt(x, y) == Term_lt(x, y, "grevlex")

swap(h, i, j) == [h EXCEPT ![i] = h[j], ![j] = h[i]]

RECURSIVE siftUp(_, _)
\* move h[i] up while its parent is smaller
siftUp(h, i) ==
    IF i <= 1 THEN h
    ELSE LET parent == i \div 2
         IN  IF lt(h[parent], h[i]) THEN siftUp(swap(h, parent, i), parent) ELSE h

RECURSIVE siftDown(_, _)
\* move h[i] down while its larger child is larger
siftDown(h, i) ==
    LET left  == 2 * i
        right == 2 * i + 1
        child == IF right <= Len(h) /\ lt(h[left], h[right]) THEN right ELSE left
    IN  IF left > Len(h) THEN h
        ELSE IF lt(h[i], h[child]) THEN siftDown(swap(h, i, child), child)
        ELSE h

\* MaxHeap.heappush(x): a Term already in the queue is not added again
\* (test_push_pop pushes a3 twice and pops it once)
heappush(x) ==
    /\ heap' = IF x \in {heap[j] : j \in 1..Len(heap)} THEN heap
               ELSE siftUp(Append(heap, x), Len(heap) + 1)
    /\ drained' = <<>>
    /\ UNCHANGED callVars

\* MaxHeap.heappop(): removes and returns the root
heappop ==
    /\ heap # <<>>
    /\ heap' = IF Len(heap) = 1 THEN <<>>
               ELSE siftDown([SubSeq(heap, 1, Len(heap) - 1)
                                 EXCEPT ![1] = heap[Len(heap)]], 1)
    /\ drained' = Append(drained, heap[1])
    /\ UNCHANGED callVars

Push == \E x \in TestTerms : heappush(x)

HeapNext == Push \/ heappop

HeapSpec == Init /\ [][HeapNext]_vars

(* --------------------------- claims ------------------------------------ *)
\* s holds every index of [0, n) exactly once
IsBijectionOn(s, n) ==
    /\ Len(s) = n
    /\ \A v \in 0..(n - 1) : \E j \in 1..n : s[j] = v
    /\ \A j, k \in 1..n : s[j] = s[k] => j = k

\* N = sum over k = 0..matrixDegree of C(k+dim-1, k)
RowN(dim, matrixDegree) == rowLength(dim, matrixDegree, 0)

NoRepeats(s) == \A j, k \in 1..Len(s) : s[j] = s[k] => j = k

Elems(s) == {s[j] : j \in 1..Len(s)}

\* C1: for dim >= 1 and d >= 0 the list returned by
\* mon_combosHighest([0]*dim, d) has exactly num_mons(d, dim) entries; in
\* particular num_mons(2, 3) = 6 and the dim = 3, d = 2 list has 6 entries.
C1_CountMatches ==
    /\ (op = "mon_combosHighest" /\ args.deg >= 0)
          => Len(ret) = num_mons(args.deg, args.dim)
    /\ (op = "mon_combosHighest" /\ args.dim = 3 /\ args.deg = 2)
          => Len(ret) = 6
    /\ (op = "num_mons" /\ args.dim = 3 /\ args.deg = 2) => ret = 6

C1_Witness ==
    op = "mon_combosHighest" /\ args.dim = 3 /\ args.deg = 2 /\ Len(ret) = 6

\* C2: for all dim >= 1, matrixDegree >= 0 and deg, every permutation array
\* produced (by permutation_array, as a value of all_permutations, as the
\* primary permutation of a triple of all_permutations_cheb) has length
\* N = sum_{k=0..matrixDegree} num_mons(k, dim) and is a bijection on [0, N).
C2_EveryArrayIsBijection ==
    /\ op = "permutation_array"
          => IsBijectionOn(ret, RowN(args.dim, args.deg))
    /\ (op = "all_permutations" /\ ~raised)
          => \A key \in DOMAIN ret :
                IsBijectionOn(ret[key], RowN(args.dim, args.matrixDegree))
    /\ (op = "all_permutations_cheb" /\ ~raised)
          => \A key \in DOMAIN ret :
                IsBijectionOn(ret[key][1], RowN(args.dim, args.matrixDegree))

\* The row P reindexes, r[P], is the row of x_i times the polynomial of r:
\* P sends the position of m + e_i to the position of m, and the position
\* of a monomial without x_i to a degree-D position.
MultipliesByVar(P, dim, D, i) ==
    LET mons == mons_ordered(dim, D)
        rev  == Reverse(mons)
        idx  == mon_dict_of(mons)
        e_i  == [Rep(0, dim) EXCEPT ![i + 1] = 1]
        r    == ListOf([j \in 1..Len(rev) |->
                                IF SumSeq(rev[j]) = D THEN 0 ELSE j], Len(rev))
        xr   == ListOf([j \in 1..Len(rev) |->
                    IF rev[j][i + 1] >= 1 THEN r[idx[subtract(rev[j], e_i)] + 1]
                    ELSE 0], Len(rev))
    IN  /\ \A m \in Monomials(dim, D - 1) :
              P[idx[ListOf([k \in 1..dim |-> m[k] + e_i[k]], dim)] + 1] = idx[m]
        /\ \A t \in Monomials(dim, D) :
              t[i + 1] = 0 => SumSeq(rev[P[idx[t] + 1] + 1]) = D
        /\ Take(r, P) = xr

\* C3: with idx(m) the position of m in the reversed mons_ordered(dim, D)
\* and P = permutation_array(D, dim, dim-1-i) = all_permutations(..)[e_i],
\* D >= 1: P[idx(m + e_i)] = idx(m) for every m of degree <= D-1, P[idx(t)]
\* is a degree-D index for every t not divisible by x_i, and so r[P] is the
\* row of x_i * r for any row r that is zero at the degree-D positions.
C3_VariablePermutationMultiplies ==
    /\ (op = "permutation_array" /\ args.deg >= 1)
          => MultipliesByVar(ret, args.dim, args.deg, args.dim - 1 - args.mon)
    /\ (op = "all_permutations" /\ ~raised /\ args.matrixDegree >= 1)
          => \A i \in 0..(args.dim - 1) :
                /\ ret[get_var_list(args.dim)[i + 1]]
                     = permutation_array(args.matrixDegree, args.dim, args.dim - 1 - i)
                /\ MultipliesByVar(ret[get_var_list(args.dim)[i + 1]],
                                   args.dim, args.matrixDegree, i)

C3_Witness ==
    /\ op = "permutation_array"
    /\ args.dim = 3 /\ args.deg = 4 /\ args.mon = 1
    /\ MultipliesByVar(ret, 3, 4, 1)

\* C4: for a permutation P of [0, n), Q = inverse_P(P) satisfies
\* Q[P[i]] = i and P[Q[i]] = i for all i; reindexing a sequence by P and
\* then by Q returns it; and inverse_P(inverse_P(P)) = P.
C4_InverseRoundTrip ==
    op = "inverse_P" =>
        LET P == args.P
            Q == ret
            n == Len(P)
            row == ListOf([j \in 1..n |-> 10 * j], n)
        IN  /\ Len(Q) = n
            /\ \A j \in 1..n : Q[P[j] + 1] = j - 1 /\ P[Q[j] + 1] = j - 1
            /\ Take(Take(row, P), Q) = row
            /\ inverse_P(Q) = P

\* the hand-computed case of test_inverse_P is too long for MaxPermLen; the
\* witness is a 3-cycle, which is not its own inverse
C4_Witness ==
    op = "inverse_P" /\ args.P = <<1, 2, 0>> /\ ret = <<2, 0, 1>>

\* C5: for each order tag and exponent tuples a, b, c of one length,
\* exactly one of a < b, a = b, b < a holds, and a < b and b < c imply a < c.
C5_StrictTotalOrder ==
    op = "Term_lt" =>
        /\ (args.a = args.b) => (~ret.ab /\ ~ret.ba)
        /\ (args.a # args.b) => (ret.ab # ret.ba)
        /\ (ret.ab /\ ret.bc) => ret.ac

C5_Witness ==
    /\ op = "Term_lt" /\ args.order = "grevlex"
    /\ args.a = <<0, 2, 0>> /\ args.b = <<1, 0, 1>> /\ args.c = <<0, 1, 1>>
    /\ ret.ba /\ ~ret.ab

\* C6: after any sequence of heappush and heappop, each heappop returns an
\* element that no element left in the queue exceeds under grevlex, so a
\* drain is non-increasing; and pushing the five Terms of test_push_pop and
\* popping until empty yields a3, a2, a1, a4, a0 in that order.
C6_PopReturnsMaximum ==
    /\ drained # <<>>
          => \A j \in 1..Len(heap) : ~lt(drained[Len(drained)], heap[j])
    /\ \A j \in 1..(Len(drained) - 1) : ~lt(drained[j], drained[j + 1])
    /\ (heap = <<>> /\ Len(drained) = 5) => drained = <<a3, a2, a1, a4, a0>>

C6_Witness == heap = <<>> /\ drained = <<a3, a2, a1, a4, a0>>

\* C7: for dim >= 1 and deg >= 0, mons_ordered(dim, deg) holds every
\* exponent tuple of length dim and total degree in [0, deg] exactly once,
\* in contiguous blocks of ascending total degree, block k of C(k+dim-1, k)
\* entries; its length is N and the index map built from the reversed list
\* is a bijection onto [0, N).
C7_OrderedListIsGradedEnumeration ==
    (op = "mons_ordered" /\ args.deg >= 0) =>
        LET N  == RowN(args.dim, args.deg)
            md == mon_dict_of(ret)
        IN  /\ Elems(ret) = Monomials(args.dim, args.deg)
            /\ NoRepeats(ret)
            /\ \A j \in 1..(Len(ret) - 1) : SumSeq(ret[j]) <= SumSeq(ret[j + 1])
            /\ \A k \in 0..args.deg :
                  Cardinality({j \in 1..Len(ret) : SumSeq(ret[j]) = k})
                      = comb(k + args.dim - 1, k)
            /\ Len(ret) = N
            /\ DOMAIN md = Monomials(args.dim, args.deg)
            /\ {md[m] : m \in DOMAIN md} = 0..(N - 1)
            /\ \A m1, m2 \in DOMAIN md : md[m1] = md[m2] => m1 = m2

C7_Witness ==
    /\ op = "mons_ordered" /\ args.dim = 3 /\ args.deg = 2
    /\ Len(ret) = 10 /\ ret[10] = <<2, 0, 0>> /\ ret[1] = <<0, 0, 0>>

\* consecutive entries of one degree block are ascending in the given order
BlocksSorted(list, order) ==
    \A j \in 1..(Len(list) - 1) :
        SumSeq(list[j]) = SumSeq(list[j + 1])
            => Term_lt(list[j], list[j + 1], order)

\* C8 (as stated): for dim >= 1 and deg >= 0 every degree block of
\* mons_ordered(dim, deg) is sorted by grevlex: consecutive entries a, b of
\* one block satisfy a < b under the default comparison of Term.__lt__.
C8_BlocksSortedByGrevlex ==
    (op = "mons_ordered" /\ args.deg >= 0) => BlocksSorted(ret, "grevlex")

\* C8 (amended): every degree block of mons_ordered(dim, deg) is sorted by
\* the lexicographic comparison of Term.__lt__ (order 'lexographic'), the
\* order of emission; for dim <= 2 that is also the grevlex order.
C8_BlocksSortedByEmissionOrder ==
    (op = "mons_ordered" /\ args.deg >= 0) =>
        /\ BlocksSorted(ret, "lexographic")
        /\ args.dim <= 2 => BlocksSorted(ret, "grevlex")

C8_Witness ==
    /\ op = "mons_ordered" /\ args.dim = 3 /\ args.deg = 2
    /\ ret[7] = <<0, 2, 0>> /\ ret[8] = <<1, 0, 1>>
    /\ Term_lt(ret[7], ret[8], "lexographic")
    /\ ~Term_lt(ret[7], ret[8], "grevlex")

\* C9: for dim >= 1 and d >= 0, mon_combos([0]*dim, d) returns exactly the
\* exponent tuples of length dim with sum <= d, each once, so its length is
\* sum_{k=0..d} num_mons(k, dim).
C9_UpToDegreeIsExact ==
    (op = "mon_combos" /\ args.deg >= 0) =>
        /\ Elems(ret) = Monomials(args.dim, args.deg)
        /\ NoRepeats(ret)
        /\ Len(ret) = RowN(args.dim, args.deg)

C9_Witness ==
    /\ op = "mon_combos" /\ args.dim = 3 /\ args.deg = 2
    /\ Len(ret) = 10 /\ <<1, 0, 1>> \in Elems(ret) /\ <<0, 0, 0>> \in Elems(ret)

\* C10: a negative degree fails fast: mon_combosHighest, mon_combos,
\* mons_ordered and num_mons called with a negative degree end in an error
\* and never return a result.
C10_NegativeDegreeFailsFast ==
    (/\ op \in {"mon_combosHighest", "mon_combos", "mons_ordered", "num_mons"}
     /\ args.deg < 0) => raised

\* C11: for dim >= 1 and 1 <= deg <= matrixDegree the map returned by
\* all_permutations_cheb(deg, dim, matrixDegree) has a triple (P, C1, C2)
\* for every monomial of total degree 1..deg in dim variables, the
\* multi-variable ones such as (1,1) included.
C11_EveryMonomialHasTriple ==
    (op = "all_permutations_cheb" /\ 1 <= args.deg
                                  /\ args.deg <= args.matrixDegree)
        => /\ ~raised
           /\ \A m \in Monomials(args.dim, args.deg) :
                 SumSeq(m) >= 1 => (m \in DOMAIN ret /\ Len(ret[m]) = 3)
\* |m - k*e_var| coordinate-wise
DiffOf(m, k, var) ==
    [m EXCEPT ![var + 1] = IF @ >= k THEN @ - k ELSE k - @]

\* The tracked monomials (degree <= D-1) on the side chosen by needGE
\* (m[var] >= k, or m[var] < k) whose difference with k*e_var is indexed
Hits(dim, D, k, var, needGE) ==
    LET idx == mon_dict_of(mons_ordered(dim, D))
    IN  {m \in Monomials(dim, D - 1) :
            /\ (m[var + 1] >= k) = needGE
            /\ DiffOf(m, k, var) \in DOMAIN idx}

\* C has one entry per indexed monomial, holds idx(m) at the position
\* idx(|m - k*e_var|) for every hit m, and 0 everywhere else
RecordsExactly(C, dim, D, k, var, needGE) ==
    LET idx  == mon_dict_of(mons_ordered(dim, D))
        hits == Hits(dim, D, k, var, needGE)
    IN  /\ Len(C) = Cardinality(DOMAIN idx)
        /\ \A m \in hits : C[idx[DiffOf(m, k, var)] + 1] = idx[m]
        /\ \A j \in 1..Len(C) :
              (\A m \in hits : idx[DiffOf(m, k, var)] + 1 # j) => C[j] = 0

\* the keys k*e_i with k >= 2 of a map of all_permutations_cheb
PowerKeys(dim, deg) ==
    {<<k, i>> \in (2..deg) \X (0..(dim - 1)) : TRUE}

C13_BoundaryMapAndMisses ==
    /\ (op = "cheb_perturbation3" /\ args.matrixDegree >= 1)
          => /\ ~raised
             /\ RecordsExactly(ret, args.dim, args.matrixDegree,
                               args.k, args.var, FALSE)
    /\ (op = "cheb_perturbation2" /\ args.matrixDegree >= 1)
          => /\ ~raised
             /\ Len(ret) = RowN(args.dim, args.matrixDegree)
             /\ \A j \in 1..Len(ret) :
                   ret[j] # 0 =>
                     \E m \in Hits(args.dim, args.matrixDegree,
                                   args.k, args.var, TRUE) :
                        ret[j] = mon_dict_of(mons_ordered(args.dim,
                                                 args.matrixDegree))[m]
    /\ (op = "all_permutations_cheb" /\ args.matrixDegree >= 1)
          => /\ ~raised
             /\ \A ki \in PowerKeys(args.dim, args.deg) :
                   RecordsExactly(
                       ret[[Rep(0, args.dim) EXCEPT ![ki[2] + 1] = ki[1]]][3],
                       args.dim, args.matrixDegree, ki[1], ki[2], FALSE)

\* a call with a hit (m = (1), difference (2)) and a miss (m = (0),
\* difference (3), of degree above matrixDegree = 2)
C13_Witness ==
    /\ op = "cheb_perturbation3" /\ ~raised
    /\ args.dim = 1 /\ args.matrixDegree = 2 /\ args.k = 3 /\ args.var = 0
    /\ Hits(1, 2, 3, 0, FALSE) = {<<1>>}
    /\ <<3>> \notin DOMAIN mon_dict_of(mons_ordered(1, 2))
    /\ ret = <<1, 0, 0>>
\* C14: all_permutations(deg, dim, matrixDegree) with the default arguments
\* builds the memo in increasing total degree, so every monomial of degree
\* 2..deg finds a single-variable decrement in the memo when it is
\* processed: no monomial is skipped, and the key set of the returned map is
\* exactly the monomials of total degree 0..max(deg,1) in dim variables.
\* (The call returns a map unless matrixDegree = 0, dim >= 2 and deg >= 2,
\* where the composition of arrays of unequal length raises IndexError.)
C14_MemoBuiltInDegreeOrder ==
    op = "all_permutations" =>
        /\ all_permutations(args.deg, args.dim, args.matrixDegree).skipped = 0
        /\ raised => (args.matrixDegree = 0 /\ args.dim >= 2 /\ args.deg >= 2)
        /\ ~raised =>
              DOMAIN ret = Monomials(args.dim,
                                     IF args.deg >= 1 THEN args.deg ELSE 1)

C14_Witness ==
    /\ op = "all_permutations" /\ ~raised
    /\ args.dim = 3 /\ args.deg = 4 /\ args.matrixDegree = 4
    /\ <<1, 2, 1>> \in DOMAIN ret
    /\ Cardinality(DOMAIN ret) = 35
\* coordinate-wise sum of two exponent tuples
AddMon(a, b) == ListOf([k \in 1..Len(a) |-> a[k] + b[k]], Len(a))

\* the first variable, in get_var_list(dim) order, that divides mon
FirstVar(mon, dim) ==
    get_var_list(dim)[CHOOSE i \in 1..dim :
                        mon[i] >= 1 /\ \A j \in 1..(i - 1) : mon[j] = 0]

\* C15: for every key mon of total degree >= 2 of the map returned by
\* all_permutations(deg, dim, D), deg <= D, the value is
\* permutations[var][permutations[mon - var]] for the first variable var of
\* get_var_list(dim) whose decrement is in the memo, and P_mon[idx(t + mon)]
\* = idx(t) for every monomial t with deg(t) + deg(mon) <= D, idx being the
\* position in the reversed mons_ordered(dim, D): reindexing a row by P_mon
\* multiplies by mon wherever the product stays within degree D.
C15_CompositionMultipliesByKey ==
    (op = "all_permutations" /\ args.deg <= args.matrixDegree) =>
        /\ ~raised
        /\ LET idx == mon_dict_of(mons_ordered(args.dim, args.matrixDegree))
           IN  \A mon \in DOMAIN ret :
                 SumSeq(mon) >= 2 =>
                   /\ ret[mon] = Take(ret[FirstVar(mon, args.dim)],
                                      ret[subtract(mon, FirstVar(mon, args.dim))])
                   /\ \A t \in Monomials(args.dim,
                                         args.matrixDegree - SumSeq(mon)) :
                         ret[mon][idx[AddMon(t, mon)] + 1] = idx[t]

C15_Witness ==
    /\ op = "all_permutations" /\ ~raised
    /\ args.dim = 2 /\ args.deg = 2 /\ args.matrixDegree = 3
    /\ ret[<<1, 1>>] = Take(ret[<<1, 0>>], ret[<<0, 1>>])
    /\ ret[<<1, 1>>][mon_dict_of(mons_ordered(2, 3))[<<2, 1>>] + 1]
          = mon_dict_of(mons_ordered(2, 3))[<<1, 0>>]
\* every non-zero entry of C is the index of a monomial of degree <= D-1,
\* hence at least num_mons(D, dim), and no non-zero entry occurs twice
SourcesAreTracked(C, dim, D) ==
    LET rev == Reverse(mons_ordered(dim, D))
    IN  /\ \A j \in 1..Len(C) :
              C[j] # 0 => /\ C[j] >= num_mons(D, dim)
                          /\ C[j] < Len(rev)
                          /\ SumSeq(rev[C[j] + 1]) <= D - 1
        /\ \A j1, j2 \in 1..Len(C) :
              (C[j1] # 0 /\ C[j1] = C[j2]) => j1 = j2

\* C16: for matrixDegree >= 1 and every key k*e_i, k >= 2, of the map of
\* all_permutations_cheb, every non-zero entry of C1 and of C2 is the index
\* of a monomial of degree <= matrixDegree-1, so it is >=
\* num_mons(matrixDegree, dim) >= 1: index 0 is never a recorded source and
\* the value 0 always means no contribution; within each map the non-zero
\* entries are pairwise distinct.
C16_SentinelUnambiguous ==
    (op = "all_permutations_cheb" /\ args.matrixDegree >= 1) =>
        /\ ~raised
        /\ num_mons(args.matrixDegree, args.dim) >= 1
        /\ LET rev == Reverse(mons_ordered(args.dim, args.matrixDegree))
           IN  \A j \in 1..Len(rev) :
                 SumSeq(rev[j]) <= args.matrixDegree - 1
                    => j - 1 >= num_mons(args.matrixDegree, args.dim)
        /\ \A ki \in PowerKeys(args.dim, args.deg) :
              LET triple == ret[[Rep(0, args.dim) EXCEPT ![ki[2] + 1] = ki[1]]]
              IN  /\ SourcesAreTracked(triple[2], args.dim, args.matrixDegree)
                  /\ SourcesAreTracked(triple[3], args.dim, args.matrixDegree)

C16_Witness ==
    /\ op = "all_permutations_cheb" /\ ~raised
    /\ args.dim = 2 /\ args.deg = 2 /\ args.matrixDegree = 3
    /\ \E j \in 1..Len(ret[<<2, 0>>][2]) : ret[<<2, 0>>][2][j] # 0
    /\ \E j \in 1..Len(ret[<<2, 0>>][3]) : ret[<<2, 0>>][3][j] # 0
====
